---- MODULE Spec2Model ----
(***************************************************************************)
(* Model of the eBCSgen core: atomic agents and their context completion,  *)
(* rule expansion into reactions, context reduction and redundancy         *)
(* marking of a Model, and the match engine of a Rule.                     *)
(*                                                                         *)
(* Python values whose dynamic type matters are records with a "kind"      *)
(* field: a list is [kind |-> "list", items |-> <<...>>], a set is         *)
(* [kind |-> "set", items |-> <<...>>] where items is the order in which   *)
(* the set iterates (an arbitrary order, chosen when the set is built),    *)
(* and None is [kind |-> "None"].                                          *)
(***************************************************************************)
EXTENDS Integers, Sequences, FiniteSets, TLC

VARIABLES
    lhs,               \* match engine: self.lhs.agents of the simulated Rule
    matching_map,      \* match engine: self.matching_map (a list of sets)
    has_map,           \* match engine: whether self.matching_map was assigned
    rule,              \* expansion: the Rule that is expanded
    atomic_signature,  \* the atomic signature: name -> set of states
    heap,              \* model: the Rule objects, id(rule) is the position
    rules,             \* model: self.rules, the ids of the Model's rules
    init,              \* model: self.init, Counter Complex -> int
    all_rates,         \* model: self.all_rates
    reductions,        \* model: how often reduce_context was called
    call               \* the call in progress: its name, arguments and returned value

matchVars == <<lhs, matching_map, has_map>>
expandVars == <<rule, atomic_signature>>
modelVars == <<heap, rules, init, all_rates, reductions>>

vars == <<lhs, matching_map, has_map, rule, atomic_signature,
          heap, rules, init, all_rates, reductions, call>>

----------------------------------------------------------------------------
(* Bounds *)

\* largest count of one complex in a state
MaxCount == 2
\* largest number of left-hand patterns of the simulated rule
MaxSlots == 2
\* largest number of agents on one side of an expanded rule
MaxSide == 2
\* largest number of rules of a Model
MaxRules == 2
\* how many times reduce_context is called on one Model
MaxReductions == 1

----------------------------------------------------------------------------
(* Python values *)

PyNone == [kind |-> "None"]
PyList(items) == [kind |-> "list", items |-> items]
PySet(items) == [kind |-> "set", items |-> items]

Range(s) == {s[i] : i \in DOMAIN s}

\* Python's == between lists and sets: values of different types are unequal
PyEq(x, y) ==
    /\ x.kind = y.kind
    /\ IF x.kind = "set" THEN Range(x.items) = Range(y.items)
       ELSE IF x.kind = "list" THEN x.items = y.items
       ELSE TRUE

\* every order in which a set S can iterate
Orderings(S) ==
    {s \in [1..Cardinality(S) -> S] : Range(s) = S}

\* the sequences over S of length at most n
SeqUpTo(S, n) == UNION {[1..k -> S] : k \in 0..n}

----------------------------------------------------------------------------
(* Atomic agents and complexes *)

WILDCARD == "_"

AtomicAgent(name, state) == [name |-> name, state |-> state]

\* AtomicAgent.__eq__
AtomicAgent_eq(self, other) ==
    self.name = other.name /\ self.state = other.state

\* AtomicAgent.compatible
AtomicAgent_compatible(self, other) ==
    AtomicAgent_eq(self, other) \/ (self.name = other.name /\ self.state = WILDCARD)

\* Complex(agents, compartment)
Complex(agents, compartment) == [agents |-> agents, compartment |-> compartment]

\* Complex.compatible: same compartment, agents compatible position by position
Complex_compatible(self, other) ==
    /\ self.compartment = other.compartment
    /\ Len(self.agents) = Len(other.agents)
    /\ \A i \in DOMAIN self.agents : AtomicAgent_compatible(self.agents[i], other.agents[i])

----------------------------------------------------------------------------
(* Match engine: Rule.create_matching_map, is_applicable, choose_a_match,  *)
(* and the module-level find_all_matches                                   *)

\* the complexes a live state can hold
StateComplexes ==
    { Complex(<<AtomicAgent("A", "p")>>, "cyt"),
      Complex(<<AtomicAgent("A", "u")>>, "cyt"),
      Complex(<<AtomicAgent("B", "p")>>, "cyt") }

\* the left-hand patterns of the simulated rule
Patterns ==
    { Complex(<<AtomicAgent("A", WILDCARD)>>, "cyt"),
      Complex(<<AtomicAgent("A", "p")>>, "cyt"),
      Complex(<<AtomicAgent("B", WILDCARD)>>, "cyt") }

\* a state: Counter Complex -> int, a key may be present with count 0
States == UNION {[K -> 0..MaxCount] : K \in SUBSET StateComplexes}

\* a find_all_matches that tries a candidate whose count is already 0
AvailableAtZero(state, match) == match \in DOMAIN state /\ state[match] >= 0

\* `match in state and state[match] > 0`
Available(state, match) == match \in DOMAIN state /\ state[match] > 0

\* `state[match] -= 1`
Decrement(state, match) == [state EXCEPT ![match] = @ - 1]

RECURSIVE find_all_matches(_, _)
RECURSIVE find_all_matches_loop(_, _, _, _)

\* the `for match in matching_map[0]` loop from its j-th element on; `state` is
\* the loop's own dict, which every iteration decrements in place and none restores
find_all_matches_loop(mm, state, j, choices) ==
    IF j > Len(mm[1].items) THEN choices
    ELSE LET match == mm[1].items[j] IN
         IF Available(state, match)
         THEN LET state1 == Decrement(state, match)
                  branches == find_all_matches(Tail(mm), state1)
              IN find_all_matches_loop(mm, state1, j + 1,
                     choices \o [b \in 1..Len(branches) |-> <<match>> \o branches[b]])
         ELSE find_all_matches_loop(mm, state, j + 1, choices)

\* find_all_matches(matching_map, state): a list of lists of complexes
find_all_matches(mm, state) ==
    IF Len(mm) = 0 THEN << <<>> >>
    ELSE find_all_matches_loop(mm, state, 1, <<>>)

RECURSIVE loop_state(_, _, _)
\* the loop's dict `state` when `for match in matching_map[0]` reaches its j-th
\* candidate: every candidate before it that passed the test was subtracted
loop_state(candidates, state, j) ==
    IF j = 1 THEN state
    ELSE LET before == loop_state(candidates, state, j - 1)
             match == candidates[j - 1]
         IN IF Available(before, match) THEN Decrement(before, match) ELSE before

RECURSIVE state_seen(_, _, _)
\* the dict `state` that the test `match in state and state[match] > 0` reads
\* for the candidate path[i] of slot i, the candidates path[1..i-1] having been
\* taken for the slots before; not reached when the search never gets there
state_seen(mm, state, path) ==
    LET here == loop_state(mm[1].items, state, path[1])
        match == mm[1].items[path[1]]
    IN IF Len(path) = 1 THEN [reached |-> TRUE, state |-> here]
       ELSE IF Available(here, match)
            THEN state_seen(Tail(mm), Decrement(here, match), Tail(path))
            ELSE [reached |-> FALSE, state |-> here]

\* the paths of candidate indices, one per slot from the first slot on
Paths(mm) ==
    UNION {{path \in [1..i -> 1..Cardinality(StateComplexes)] :
               \A k \in 1..i : path[k] <= Len(mm[k].items)} : i \in 1..Len(mm)}

\* the set `matches` that create_matching_map builds for one left-hand complex
Matches(lhs_complex, state) ==
    {state_complex \in DOMAIN state : Complex_compatible(lhs_complex, state_complex)}

\* Rule.is_applicable: `[] not in self.matching_map`
is_applicable(mm) ==
    ~ \E i \in DOMAIN mm : PyEq(PyList(<<>>), mm[i])

\* the value `choices` of choose_a_match
Choices(mm, state) == find_all_matches(mm, state)

\* a choose_a_match that reads its `all` flag the wrong way round
choose_a_match_flipped(mm, state, all) ==
    IF is_applicable(mm) /\ Choices(mm, state) # <<>>
    THEN IF all
         THEN {PyList(Choices(mm, state)[i]) : i \in DOMAIN Choices(mm, state)}
         ELSE {PyList(Choices(mm, state))}
    ELSE {PyNone}

\* what Rule.choose_a_match(state, all) can return
choose_a_match(mm, state, all) ==
    IF is_applicable(mm) /\ Choices(mm, state) # <<>>
    THEN IF ~all
         THEN {PyList(Choices(mm, state)[i]) : i \in DOMAIN Choices(mm, state)}
         ELSE {PyList(Choices(mm, state))}
    ELSE {PyNone}

NoCall == [op |-> "none", args |-> <<>>, value |-> PyNone]

\* the Rule of a specification that expands no rule
NoRule == [agents |-> <<>>]

InitMatch ==
    /\ lhs \in SeqUpTo(Patterns, MaxSlots)
    /\ matching_map = <<>>
    /\ has_map = FALSE
    /\ call = NoCall
    /\ rule = NoRule
    /\ atomic_signature = <<>>
    /\ heap = <<>>
    /\ rules = {}
    /\ init = <<>>
    /\ all_rates = TRUE
    /\ reductions = 0

RECURSIVE MatchingMaps(_, _)
\* every list of sets create_matching_map(state) can leave in self.matching_map:
\* one set per left-hand complex, each in any iteration order
MatchingMaps(patterns, state) ==
    IF patterns = <<>> THEN {<<>>}
    ELSE {<<PySet(o)>> \o rest :
              o \in Orderings(Matches(Head(patterns), state)),
              rest \in MatchingMaps(Tail(patterns), state)}

\* no call on the Rule is in progress
Idle == call.op = "none"

\* rule.create_matching_map(state)
CreateMatchingMap ==
    /\ Idle
    /\ \E state \in States :
        /\ matching_map' \in MatchingMaps(lhs, state)
        /\ call' = [op |-> "create_matching_map", args |-> [state |-> state], value |-> PyNone]
    /\ has_map' = TRUE
    /\ UNCHANGED <<lhs, expandVars, modelVars>>

\* rule.is_applicable()
IsApplicable ==
    /\ Idle
    /\ has_map
    /\ call' = [op |-> "is_applicable", args |-> <<>>,
                value |-> [kind |-> "bool", val |-> is_applicable(matching_map)]]
    /\ UNCHANGED <<matchVars, expandVars, modelVars>>

\* rule.choose_a_match(state, all)
ChooseAMatch ==
    /\ Idle
    /\ has_map
    /\ \E state \in States, all \in BOOLEAN :
         \E r \in choose_a_match(matching_map, state, all) :
            call' = [op |-> "choose_a_match", args |-> [state |-> state, all |-> all], value |-> r]
    /\ UNCHANGED <<matchVars, expandVars, modelVars>>

\* find_all_matches(rule.matching_map, state), called directly
FindAllMatches ==
    /\ Idle
    /\ has_map
    /\ \E state \in States :
         call' = [op |-> "find_all_matches", args |-> [state |-> state],
                  value |-> PyList(find_all_matches(matching_map, state))]
    /\ UNCHANGED <<matchVars, expandVars, modelVars>>

\* the caller takes the returned value
ReturnMatch ==
    /\ ~Idle
    /\ call' = NoCall
    /\ UNCHANGED <<matchVars, expandVars, modelVars>>

NextMatch ==
    CreateMatchingMap \/ IsApplicable \/ ChooseAMatch \/ FindAllMatches \/ ReturnMatch

SpecMatch == InitMatch /\ [][NextMatch]_vars

----------------------------------------------------------------------------
(* Context completion and rule expansion: AtomicAgent.add_context,         *)
(* Rule.create_complexes, Rule.to_reaction, Rule.create_reactions          *)

\* the Python None of an index in `pairs`
None == -1

\* a Python int: the sentinels -1 and 1 that create_reactions passes as `other`
PyInt(v) == [kind |-> "int", val |-> v]

\* `type(self) == type(other)` for an AtomicAgent self
SameType(other) == "name" \in DOMAIN other

\* the rate expression every expanded rule carries
Rate == [kind |-> "Rate", expr |-> "k1"]

\* Rule(agents, mid, compartments, complexes, pairs, rate); indices count from 0
Rule(agents, mid, compartments, complexes, pairs, rate) ==
    [agents |-> agents, mid |-> mid, compartments |-> compartments,
     complexes |-> complexes, pairs |-> pairs, rate |-> rate,
     comment |-> [flag |-> FALSE, ids |-> <<>>]]

\* the Python slice seq[f:t]
Slice(seq, f, t) ==
    SubSeq(seq, f + 1, IF t < Len(seq) THEN t ELSE Len(seq))

\* Side(agents): a multiset of complexes
Side(complexes) ==
    [c \in Range(complexes) |-> Cardinality({i \in DOMAIN complexes : complexes[i] = c})]

\* the complexes of the rule in the order of self.complexes, each with the side
\* create_complexes appends it to
ComplexesOf(r) ==
    [i \in DOMAIN r.complexes |->
        LET f == r.complexes[i][1]
            t == r.complexes[i][2]
        IN [complex |-> Complex(Slice(r.agents, f, t + 1), r.compartments[f + 1]),
            left |-> t < r.mid]]

\* Rule.create_complexes: the two Sides
create_complexes(r) ==
    LET cs == ComplexesOf(r)
        pick(left) == SelectSeq(cs, LAMBDA c : c.left = left)
        only(seq) == [i \in DOMAIN seq |-> seq[i].complex]
    IN [lhs |-> Side(only(pick(TRUE))), rhs |-> Side(only(pick(FALSE)))]

\* Rule.to_reaction: Reaction(lhs, rhs, copy(self.rate))
to_reaction(r) ==
    [lhs |-> create_complexes(r).lhs, rhs |-> create_complexes(r).rhs, rate |-> r.rate]

\* an add_context that invents the two states of a wildcard pair independently
add_context_independent(self, other, sig) ==
    IF SameType(other)
    THEN IF self.state = WILDCARD /\ other.state = WILDCARD
         THEN {<<AtomicAgent(self.name, s1), AtomicAgent(self.name, s2)>> :
                   s1 \in sig[self.name], s2 \in sig[self.name]}
         ELSE {<<self, other>>}
    ELSE IF other.val = -1
    THEN IF self.state = WILDCARD
         THEN {<<PyNone, AtomicAgent(self.name, s)>> : s \in sig[self.name]}
         ELSE {<<PyNone, self>>}
    ELSE IF self.state = WILDCARD
         THEN {<<AtomicAgent(self.name, s), PyNone>> : s \in sig[self.name]}
         ELSE {<<self, PyNone>>}

\* an add_context that completes only the left agent of a wildcard pair
add_context_left_only(self, other, sig) ==
    IF SameType(other)
    THEN IF self.state = WILDCARD /\ other.state = WILDCARD
         THEN {<<AtomicAgent(self.name, s), other>> : s \in sig[self.name]}
         ELSE {<<self, other>>}
    ELSE IF other.val = -1
    THEN IF self.state = WILDCARD
         THEN {<<PyNone, AtomicAgent(self.name, s)>> : s \in sig[self.name]}
         ELSE {<<PyNone, self>>}
    ELSE IF self.state = WILDCARD
         THEN {<<AtomicAgent(self.name, s), PyNone>> : s \in sig[self.name]}
         ELSE {<<self, PyNone>>}

\* AtomicAgent.add_context(other, atomic_signature, structure_signature)
add_context(self, other, sig) ==
    IF SameType(other)
    THEN IF self.state = WILDCARD /\ other.state = WILDCARD
         THEN {<<AtomicAgent(self.name, s), AtomicAgent(self.name, s)>> : s \in sig[self.name]}
         ELSE {<<self, other>>}
    ELSE IF other.val = -1
    THEN IF self.state = WILDCARD
         THEN {<<PyNone, AtomicAgent(self.name, s)>> : s \in sig[self.name]}
         ELSE {<<PyNone, self>>}
    ELSE IF self.state = WILDCARD
         THEN {<<AtomicAgent(self.name, s), PyNone>> : s \in sig[self.name]}
         ELSE {<<self, PyNone>>}

\* the `left` and `right` create_reactions picks for the pair (l, r)
PairAgents(r, pair) ==
    IF pair[1] = None
    THEN [left |-> r.agents[pair[2] + 1], right |-> PyInt(-1)]
    ELSE IF pair[2] = None
    THEN [left |-> r.agents[pair[1] + 1], right |-> PyInt(1)]
    ELSE [left |-> r.agents[pair[1] + 1], right |-> r.agents[pair[2] + 1]]

\* the list `results` of create_reactions: one completion set per pair
Results(r, sig) ==
    [i \in DOMAIN r.pairs |->
        add_context(PairAgents(r, r.pairs[i]).left, PairAgents(r, r.pairs[i]).right, sig)]

\* itertools.product(*results)
Product(results) ==
    {result \in [DOMAIN results -> UNION Range(results)] :
        \A i \in DOMAIN results : result[i] \in results[i]}

\* column(lst, index)
column(lst, index) == [i \in DOMAIN lst |-> lst[i][index + 1]]

\* an assembly that takes the right-hand column before the left-hand one
new_agents_right_first(result) ==
    SelectSeq(column(result, 1) \o column(result, 0), LAMBDA x : x # PyNone)

\* `tuple(filter(None, column(result, 0) + column(result, 1)))`
new_agents(result) ==
    SelectSeq(column(result, 0) \o column(result, 1), LAMBDA x : x # PyNone)

\* the agent tuples create_reactions assembles, one per element of the product
NewAgentTuples(r, sig) ==
    {new_agents(result) : result \in Product(Results(r, sig))}

\* Rule.create_reactions(atomic_signature, structure_signature): a set of Reactions
create_reactions(r, sig) ==
    {to_reaction(Rule(agents, r.mid, r.compartments, r.complexes, r.pairs, r.rate)) :
        agents \in NewAgentTuples(r, sig)}

\* the atomic names and the concrete states each of them is observed with
Names == {"A", "B"}
StatesOf(name) == IF name = "A" THEN {"p", "u"} ELSE {"p"}

\* the atomic agents rules are written with
Agents ==
    {AtomicAgent(n, s) : n \in Names, s \in {"p", "u", WILDCARD}} \
        {AtomicAgent("B", "u")}

\* the signatures extract_signatures can produce: per name the concrete states
\* observed, or {"_"} when none was
AllSignatures ==
    [Names -> {{"p"}, {"u"}, {"p", "u"}, {WILDCARD}}] \
        {sig \in [Names -> {{"p"}, {"u"}, {"p", "u"}, {WILDCARD}}] :
            \E n \in Names : sig[n] # {WILDCARD} /\ ~(sig[n] \subseteq StatesOf(n))}

\* the signatures of the models that hold rule r: every state r shows is in them
SignaturesOf(r) ==
    {sig \in AllSignatures :
        \A i \in DOMAIN r.agents :
            r.agents[i].state # WILDCARD => r.agents[i].state \in sig[r.agents[i].name]}

\* the pairs of a rule with nl left-hand and nr right-hand agents: the i-th
\* left-hand agent is entangled with the i-th right-hand one, the agents left
\* over are destroyed (l, None) or created (None, r)
PairsOf(nl, nr) ==
    LET both == IF nl < nr THEN nl ELSE nr IN
    {<<i, nl + i>> : i \in 0..(both - 1)}
        \cup {<<i, None>> : i \in both..(nl - 1)}
        \cup {<<None, nl + i>> : i \in both..(nr - 1)}

\* well-formed: entangled agents share the name and either both or none has a state
WellFormed(agents, pairs) ==
    \A pr \in pairs :
        (pr[1] # None /\ pr[2] # None) =>
            /\ agents[pr[1] + 1].name = agents[pr[2] + 1].name
            /\ (agents[pr[1] + 1].state = WILDCARD) <=> (agents[pr[2] + 1].state = WILDCARD)

\* the spans of `complexes`: every agent a complex of its own, or one complex per side
SpansOf(nl, nr) ==
    { [i \in 1..(nl + nr) |-> <<i - 1, i - 1>>],
      (IF nl > 0 THEN << <<0, nl - 1>> >> ELSE <<>>)
          \o (IF nr > 0 THEN << <<nl, nl + nr - 1>> >> ELSE <<>>) }

\* the rules over `among` with nl left-hand and nr right-hand agents, their pairs
\* listed in any order
RulesOver(among, nl, nr) ==
    {Rule(agents, nl, [i \in 1..(nl + nr) |-> "cyt"], spans, pairs, Rate) :
        agents \in {a \in [1..(nl + nr) -> among] : WellFormed(a, PairsOf(nl, nr))},
        spans \in SpansOf(nl, nr),
        pairs \in Orderings(PairsOf(nl, nr))}

ExpandRules == UNION {RulesOver(Agents, nl, nr) : nl \in 0..MaxSide, nr \in 0..MaxSide}

InitExpand ==
    /\ rule \in ExpandRules
    /\ atomic_signature \in SignaturesOf(rule)
    /\ call = NoCall
    /\ lhs = <<>>
    /\ matching_map = <<>>
    /\ has_map = FALSE
    /\ heap = <<>>
    /\ rules = {}
    /\ init = <<>>
    /\ all_rates = TRUE
    /\ reductions = 0

\* rule.create_reactions(atomic_signature, structure_signature)
CreateReactions ==
    /\ Idle
    /\ call' = [op |-> "create_reactions", args |-> <<>>,
                value |-> create_reactions(rule, atomic_signature)]
    /\ UNCHANGED <<matchVars, expandVars, modelVars>>

\* rule.to_reaction()
ToReaction ==
    /\ Idle
    /\ call' = [op |-> "to_reaction", args |-> <<>>, value |-> to_reaction(rule)]
    /\ UNCHANGED <<matchVars, expandVars, modelVars>>

\* the caller takes the returned value
ReturnExpand ==
    /\ ~Idle
    /\ call' = NoCall
    /\ UNCHANGED <<matchVars, expandVars, modelVars>>

NextExpand == CreateReactions \/ ToReaction \/ ReturnExpand

SpecExpand == InitExpand /\ [][NextExpand]_vars

InitContext ==
    /\ atomic_signature \in AllSignatures
    /\ rule = NoRule
    /\ call = NoCall
    /\ lhs = <<>>
    /\ matching_map = <<>>
    /\ has_map = FALSE
    /\ heap = <<>>
    /\ rules = {}
    /\ init = <<>>
    /\ all_rates = TRUE
    /\ reductions = 0

\* self.add_context(other, atomic_signature, structure_signature) on an atomic
\* agent; other is an atomic agent of the same name, or -1 or 1
AddContext ==
    /\ Idle
    /\ \E self \in Agents :
         \E other \in {a \in Agents : a.name = self.name} \cup {PyInt(-1), PyInt(1)} :
            call' = [op |-> "add_context", args |-> [self |-> self, other |-> other],
                     value |-> add_context(self, other, atomic_signature)]
    /\ UNCHANGED <<matchVars, expandVars, modelVars>>

\* the caller takes the returned set
ReturnContext ==
    /\ ~Idle
    /\ call' = NoCall
    /\ UNCHANGED <<matchVars, expandVars, modelVars>>

NextContext == AddContext \/ ReturnContext

SpecContext == InitContext /\ [][NextContext]_vars

----------------------------------------------------------------------------
(* The Model: extract_signatures, reduce_context, eliminate_redundant *)

\* Rule.__eq__: the comment is not compared, the rates are compared as strings
Rule_eq(self, other) ==
    /\ self.agents = other.agents
    /\ self.mid = other.mid
    /\ self.compartments = other.compartments
    /\ self.complexes = other.complexes
    /\ self.pairs = other.pairs
    /\ self.rate = other.rate

\* AtomicAgent.reduce_context
AtomicAgent_reduce_context(self) == AtomicAgent(self.name, WILDCARD)

\* Complex.reduce_context: every agent reduced
Complex_reduce_context(self) ==
    Complex([i \in DOMAIN self.agents |-> AtomicAgent_reduce_context(self.agents[i])],
            self.compartment)

\* Rate.reduce_context: a rate expression that names no agent stays as it is
Rate_reduce_context(rate) == rate

\* Rule.reduce_context: a new Rule
Rule_reduce_context(self) ==
    Rule([i \in DOMAIN self.agents |-> AtomicAgent_reduce_context(self.agents[i])],
         self.mid, self.compartments, self.complexes, self.pairs,
         IF self.rate # PyNone THEN Rate_reduce_context(self.rate) ELSE PyNone)

\* an is_meaningful that finds every rule meaningful
is_meaningful_always(self) == TRUE

\* Rule.is_meaningful
is_meaningful(self) == to_reaction(self).lhs # to_reaction(self).rhs

\* Reaction.compatible, for the reactions of two rules: the complexes of the
\* left-hand and of the right-hand sides are compatible position by position
Rule_compatible(self, other) ==
    LET mine == ComplexesOf(self)
        theirs == ComplexesOf(other)
    IN /\ Len(mine) = Len(theirs)
       /\ \A i \in DOMAIN mine :
             /\ mine[i].left = theirs[i].left
             /\ Complex_compatible(mine[i].complex, theirs[i].complex)

\* the agents of the rules and of the initial complexes
AgentsIn(ruleset, counter) ==
    UNION {Range(r.agents) : r \in ruleset} \cup UNION {Range(c.agents) : c \in DOMAIN counter}

\* dict.get(key, default) and the assignment d[key] = value
Get(d, key, default) == IF key \in DOMAIN d THEN d[key] ELSE default
Put(d, key, value) == (key :> value) @@ d

\* an extend_signature that records the state of every agent
AtomicAgent_extend_signature_any(self, sig) ==
    Put(sig, self.name, Get(sig, self.name, {}) \cup {self.state})

\* AtomicAgent.extend_signature: the atomic signature it returns
AtomicAgent_extend_signature(self, sig) ==
    IF self.state # WILDCARD
    THEN Put(sig, self.name, Get(sig, self.name, {}) \cup {self.state})
    ELSE sig

RECURSIVE extend_by_agents(_, _)
\* extend_signature called on the agents of a sequence, one after the other
extend_by_agents(agents, sig) ==
    IF agents = <<>> THEN sig
    ELSE extend_by_agents(Tail(agents), AtomicAgent_extend_signature(Head(agents), sig))

\* Complex.extend_signature: the signature extended by every agent of the complex
Complex_extend_signature(self, sig) == extend_by_agents(self.agents, sig)

\* Complex.get_atomic_names: the names of the atomic agents of the complex
Complex_get_atomic_names(self) == {self.agents[i].name : i \in DOMAIN self.agents}

RECURSIVE extract_from_rules(_, _)
\* the loop of extract_signatures over self.rules: the signature, the names seen
extract_from_rules(ruleseq, acc) ==
    IF ruleseq = <<>> THEN acc
    ELSE extract_from_rules(Tail(ruleseq),
            [sig |-> extend_by_agents(Head(ruleseq).agents, acc.sig),
             names |-> acc.names \cup {Head(ruleseq).agents[i].name : i \in DOMAIN Head(ruleseq).agents}])

RECURSIVE extract_from_init(_, _)
\* the loop of extract_signatures over list(self.init)
extract_from_init(complexes, acc) ==
    IF complexes = <<>> THEN acc
    ELSE extract_from_init(Tail(complexes),
            [sig |-> Complex_extend_signature(Head(complexes), acc.sig),
             names |-> acc.names \cup Complex_get_atomic_names(Head(complexes))])

\* the last loop of extract_signatures: a name without an entry gets {"_"}
default_entries(acc) ==
    [n \in DOMAIN acc.sig \cup acc.names |-> Get(acc.sig, n, {WILDCARD})]

\* Model.extract_signatures with self.rules and self.init iterating in the given
\* orders: the atomic signature
extract_signatures_in(ruleseq, complexes) ==
    default_entries(extract_from_init(complexes,
        extract_from_rules(ruleseq, [sig |-> <<>>, names |-> {}])))

\* Model.extract_signatures: the atomic signature
extract_signatures(ruleset, counter) ==
    extract_signatures_in(CHOOSE o \in Orderings(ruleset) : TRUE,
                          CHOOSE o \in Orderings(DOMAIN counter) : TRUE)

\* Model.extract_signatures: whether every rule has a rate
extract_all_rates(ruleset) == \A r \in ruleset : r.rate # PyNone

RECURSIVE Ascending_ids(_)
\* the ids of a set in increasing order
Ascending_ids(ids) ==
    IF ids = {} THEN <<>>
    ELSE LET least == CHOOSE i \in ids : \A j \in ids : i <= j
         IN <<least>> \o Ascending_ids(ids \ {least})

RECURSIVE new_rules(_, _, _)
\* the loop of Model.reduce_context over the rules: the new Rules that
\* new_rules.add keeps, i.e. those that are meaningful and equal to none kept before
new_rules(h, ids, kept) ==
    IF ids = <<>> THEN kept
    ELSE LET new_rule == Rule_reduce_context(h[Head(ids)]) IN
         IF is_meaningful(new_rule) /\ ~ \E k \in DOMAIN kept : Rule_eq(kept[k], new_rule)
         THEN new_rules(h, Tail(ids), Append(kept, new_rule))
         ELSE new_rules(h, Tail(ids), kept)

\* `new_init[init.reduce_context()] = self.init[init]`
store_init(new_init, key, count) == (key :> count) @@ new_init

RECURSIVE new_init(_, _, _)
\* the loop of Model.reduce_context over self.init in the Counter's iteration order
new_init(counter, order, acc) ==
    IF order = <<>> THEN acc
    ELSE new_init(counter, Tail(order),
                  store_init(acc, Complex_reduce_context(Head(order)), counter[Head(order)]))

\* a reduce_context that reduces the Model's Rule objects where they are
Model_reduce_context_in_place(h, ids, counter, order) ==
    LET kept == new_rules(h, Ascending_ids(ids), <<>>)
    IN [heap |-> [i \in DOMAIN h |-> IF i \in ids THEN Rule_reduce_context(h[i]) ELSE h[i]] \o kept,
        rules |-> {Len(h) + k : k \in DOMAIN kept},
        init |-> new_init(counter, order, <<>>)]

\* Model.reduce_context: the new Rule objects are added to the heap, self.rules
\* and self.init are replaced
Model_reduce_context(h, ids, counter, order) ==
    LET kept == new_rules(h, Ascending_ids(ids), <<>>)
    IN [heap |-> h \o kept,
        rules |-> {Len(h) + k : k \in DOMAIN kept},
        init |-> new_init(counter, order, <<>>)]

RECURSIVE eliminate_loop_right_only(_, _, _, _, _)
\* nested loops that annotate rule_right only
eliminate_loop_right_only(todo, h, quantitative, counter, log) ==
    IF todo = <<>> THEN [heap |-> h, counter |-> counter, log |-> log]
    ELSE LET rule_left == Head(todo)[1]
             rule_right == Head(todo)[2]
         IN IF rule_left # rule_right /\ Rule_compatible(h[rule_left], h[rule_right])
            THEN LET h1 == [h EXCEPT ![rule_right].comment =
                                [flag |-> ~quantitative, ids |-> Append(@.ids, counter)]]
                 IN eliminate_loop_right_only(Tail(todo), h1, quantitative, counter + 1,
                                   Append(log, <<rule_left, rule_right, counter>>))
            ELSE eliminate_loop_right_only(Tail(todo), h, quantitative, counter, log)

RECURSIVE eliminate_loop(_, _, _, _, _)
\* the two nested loops of Model.eliminate_redundant over the (left, right) pairs
\* still to visit; log lists the (left, right, counter) of every id handed out
eliminate_loop(todo, h, quantitative, counter, log) ==
    IF todo = <<>> THEN [heap |-> h, counter |-> counter, log |-> log]
    ELSE LET rule_left == Head(todo)[1]
             rule_right == Head(todo)[2]
         IN IF rule_left # rule_right /\ Rule_compatible(h[rule_left], h[rule_right])
            THEN LET h1 == [h EXCEPT ![rule_right].comment =
                                [flag |-> ~quantitative, ids |-> Append(@.ids, counter)]]
                     h2 == [h1 EXCEPT ![rule_left].comment.ids = Append(@, counter)]
                 IN eliminate_loop(Tail(todo), h2, quantitative, counter + 1,
                                   Append(log, <<rule_left, rule_right, counter>>))
            ELSE eliminate_loop(Tail(todo), h, quantitative, counter, log)

\* the (left, right) pairs in the order the nested loops visit them
LoopPairs(order) ==
    [k \in 1..(Len(order) * Len(order)) |->
        <<order[((k - 1) \div Len(order)) + 1], order[((k - 1) % Len(order)) + 1]>>]

\* Model.eliminate_redundant, self.rules iterating in `order`
Model_eliminate_redundant(h, order, quantitative) ==
    eliminate_loop(LoopPairs(order), h, quantitative, 1, <<>>)

\* the agents Models are written with
ModelAgents ==
    {AtomicAgent("A", "p"), AtomicAgent("A", "u"), AtomicAgent("A", WILDCARD)}

\* the rules of Models: one agent changed or destroyed, with or without a rate
ModelRules ==
    {[r EXCEPT !.rate = rate] :
        r \in RulesOver(ModelAgents, 1, 1) \cup RulesOver(ModelAgents, 1, 0),
        rate \in {Rate, PyNone}}

\* the complexes of initial states
InitComplexes ==
    {Complex(<<AtomicAgent("A", "p")>>, "cyt"), Complex(<<AtomicAgent("A", "u")>>, "cyt")}

\* the initial states: every complex present has a positive count
Inits == UNION {[K -> 1..MaxCount] : K \in SUBSET InitComplexes}

RECURSIVE SubsetsUpTo(_, _)
\* the subsets of S with at most n elements
SubsetsUpTo(S, n) ==
    IF n = 0 THEN {{}}
    ELSE LET smaller == SubsetsUpTo(S, n - 1)
         IN smaller \cup {sub \cup {x} : sub \in smaller, x \in S}

\* Model(rules, init, definitions, params)
InitModel ==
    /\ \E ruleset \in SubsetsUpTo(ModelRules, MaxRules) :
          /\ heap = CHOOSE h \in Orderings(ruleset) : TRUE
          /\ rules = 1..Cardinality(ruleset)
          /\ all_rates = extract_all_rates(ruleset)
          /\ init \in Inits
          /\ atomic_signature = extract_signatures(ruleset, init)
    /\ reductions = 0
    /\ call = NoCall
    /\ rule = NoRule
    /\ lhs = <<>>
    /\ matching_map = <<>>
    /\ has_map = FALSE

\* what the caller still holds of the Model when the call is made
Before == [heap |-> heap, rules |-> rules, init |-> init]

\* model.reduce_context()
ReduceContext ==
    /\ Idle
    /\ reductions < MaxReductions
    /\ \E order \in Orderings(DOMAIN init) :
          LET after == Model_reduce_context(heap, rules, init, order) IN
          /\ heap' = after.heap
          /\ rules' = after.rules
          /\ init' = after.init
    /\ reductions' = reductions + 1
    /\ call' = [op |-> "reduce_context", args |-> Before, value |-> PyNone]
    /\ UNCHANGED <<all_rates, matchVars, expandVars>>

\* model.eliminate_redundant(), called on rules that carry no annotation yet
EliminateRedundant ==
    /\ Idle
    /\ \A id \in rules : heap[id].comment.ids = <<>>
    /\ \E order \in Orderings(rules) :
          LET after == Model_eliminate_redundant(heap, order, all_rates) IN
          /\ heap' = after.heap
          /\ call' = [op |-> "eliminate_redundant", args |-> Before,
                      value |-> [counter |-> after.counter, log |-> after.log]]
    /\ UNCHANGED <<rules, init, all_rates, reductions, matchVars, expandVars>>

\* the caller takes over again
ReturnModel ==
    /\ ~Idle
    /\ call' = NoCall
    /\ UNCHANGED <<matchVars, expandVars, modelVars>>

NextModel == ReduceContext \/ EliminateRedundant \/ ReturnModel

SpecModel == InitModel /\ [][NextModel]_vars

----------------------------------------------------------------------------
(* Construction of a Model: Model.__init__ and the signatures it extracts *)

\* the rules Models are constructed from: one agent of any name changed or
\* destroyed, with or without a rate
SignatureRules ==
    {[r EXCEPT !.rate = rate] :
        r \in RulesOver(Agents, 1, 1) \cup RulesOver(Agents, 1, 0),
        rate \in {Rate, PyNone}}

\* the initial states Models are constructed from
SignatureInits ==
    UNION {[K -> 1..MaxCount] :
             K \in SUBSET {Complex(<<a>>, "cyt") : a \in {b \in Agents : b.state # WILDCARD}}}

\* Model.__init__ up to `self.all_rates = True`
InitSignature ==
    /\ \E ruleset \in SubsetsUpTo(SignatureRules, MaxRules) :
          /\ heap = CHOOSE h \in Orderings(ruleset) : TRUE
          /\ rules = 1..Cardinality(ruleset)
    /\ init \in SignatureInits
    /\ all_rates = TRUE
    /\ atomic_signature = <<>>
    /\ call = [op |-> "__init__", args |-> <<>>, value |-> PyNone]
    /\ reductions = 0
    /\ rule = NoRule
    /\ lhs = <<>>
    /\ matching_map = <<>>
    /\ has_map = FALSE

\* `self.atomic_signature, self.structure_signature = self.extract_signatures()`,
\* self.rules and self.init iterating in any order
ExtractSignatures ==
    /\ call.op = "__init__"
    /\ \E ruleorder \in Orderings(rules), initorder \in Orderings(DOMAIN init) :
          atomic_signature' =
              extract_signatures_in([i \in DOMAIN ruleorder |-> heap[ruleorder[i]]], initorder)
    /\ all_rates' = (all_rates /\ extract_all_rates({heap[id] : id \in rules}))
    /\ call' = [op |-> "extract_signatures", args |-> Before, value |-> PyNone]
    /\ UNCHANGED <<heap, rules, init, reductions, matchVars, rule>>

\* AtomicAgent.__lt__: the names are compared, the states are not
AtomicAgent_lt(self, other) ==
    LET rank(n) == IF n = "A" THEN 1 ELSE 2
    IN rank(self.name) < rank(other.name)

RECURSIVE sequence_lt(_, _)
\* Python's < between two sequences of agents: the first agents that are not
\* equal decide, a proper prefix is smaller
sequence_lt(mine, theirs) ==
    IF theirs = <<>> THEN FALSE
    ELSE IF mine = <<>> THEN TRUE
    ELSE IF AtomicAgent_eq(Head(mine), Head(theirs)) THEN sequence_lt(Tail(mine), Tail(theirs))
    ELSE AtomicAgent_lt(Head(mine), Head(theirs))

\* Complex.__lt__: the structural order, that of the agent sequences
Complex_lt(self, other) == sequence_lt(self.agents, other.agents)

RECURSIVE Instances(_, _)
\* the agent sequences that give every wildcard of `agents` a state of the signature
Instances(agents, sig) ==
    IF agents = <<>> THEN {<<>>}
    ELSE LET first == Head(agents)
             states == IF first.state = WILDCARD THEN sig[first.name] ELSE {first.state}
         IN {<<AtomicAgent(first.name, st)>> \o rest :
                st \in states, rest \in Instances(Tail(agents), sig)}

\* Complex.create_all_compatible: the complexes that instantiate every wildcard
Complex_create_all_compatible(self, sig) ==
    {Complex(agents, self.compartment) : agents \in Instances(self.agents, sig)}

\* Rule.create_all_compatible: those of the complexes of its reaction
Rule_create_all_compatible(self, sig) ==
    UNION {Complex_create_all_compatible(c, sig) :
             c \in DOMAIN to_reaction(self).lhs \cup DOMAIN to_reaction(self).rhs}

\* the place sorted() gives x among the elements already placed: behind
\* every element that x is not smaller than
insort(placed, x) ==
    LET behind == {i \in DOMAIN placed : ~Complex_lt(x, placed[i])}
        k == IF behind = {} THEN 0 ELSE CHOOSE i \in behind : \A j \in behind : j <= i
    IN SubSeq(placed, 1, k) \o <<x>> \o SubSeq(placed, k + 1, Len(placed))

RECURSIVE sorted(_, _)
\* sorted(iterable), a stable sort by <, the iterable iterating as `items`
sorted(items, placed) ==
    IF items = <<>> THEN placed
    ELSE sorted(Tail(items), insort(placed, Head(items)))

\* SortedList(iterable)
SortedList(items) == PyList(sorted(items, <<>>))

\* the set unique_complexes that Model.create_ordering builds
unique_complexes(ruleset, counter, sig) ==
    UNION {Rule_create_all_compatible(r, sig) : r \in ruleset} \cup DOMAIN counter

\* model.create_ordering(), of a constructed Model, unique_complexes iterating in
\* any order; the caller may still hold the ordering of the call before
CreateOrdering ==
    /\ call.op \in {"none", "create_ordering"}
    /\ \E order \in Orderings(unique_complexes({heap[id] : id \in rules}, init, atomic_signature)) :
          call' = [op |-> "create_ordering",
                   args |-> [previous |-> IF Idle THEN PyNone ELSE call.value,
                             heap |-> heap, rules |-> rules, init |-> init],
                   value |-> SortedList(order)]
    /\ UNCHANGED <<matchVars, expandVars, modelVars>>

\* the constructor returns the Model, or the caller lets go of the orderings
ReturnSignature ==
    /\ call.op \in {"extract_signatures", "create_ordering"}
    /\ call' = NoCall
    /\ UNCHANGED <<matchVars, expandVars, modelVars>>

NextSignature == ExtractSignatures \/ CreateOrdering \/ ReturnSignature

SpecSignature == InitSignature /\ [][NextSignature]_vars

----------------------------------------------------------------------------
(* Properties of the match engine *)

\* how often complex c occurs in the combination t
Occurrences(t, c) == Cardinality({i \in DOMAIN t : t[i] = c})

\* the combination t takes no complex more often than the state holds it
WithinCounts(t, state) ==
    \A c \in Range(t) : c \in DOMAIN state /\ Occurrences(t, c) <= state[c]

\* the ordered tuples with one candidate of every slot that the counts allow
RealizableTuples(mm, state) ==
    {t \in [1..Len(mm) -> StateComplexes] :
        /\ \A i \in 1..Len(mm) : t[i] \in Range(mm[i].items)
        /\ WithinCounts(t, state)}

\* C1: find_all_matches returns exactly the ordered tuples (c_1..c_k), c_i in
\* matching_map[i], in which no complex occurs more often than the state holds
\* it, each exactly once, whatever the iteration order of the candidate sets.
C1_Complete ==
    call.op = "find_all_matches" =>
        /\ Range(call.value.items) = RealizableTuples(matching_map, call.args.state)
        /\ Len(call.value.items) = Cardinality(RealizableTuples(matching_map, call.args.state))

\* C2: is_applicable() returns True if and only if no entry of the matching_map
\* built by create_matching_map is empty.
C2_ApplicableIffNoEmptyEntry ==
    call.op = "is_applicable" =>
        (call.value.val <=> \A i \in DOMAIN matching_map : Range(matching_map[i].items) # {})

\* C7: every combination find_all_matches returns has one element per slot, its
\* i-th element is a member of matching_map[i], and taking its elements out of
\* the original state leaves no count negative.
C7_Sound ==
    call.op = "find_all_matches" =>
        \A n \in DOMAIN call.value.items :
            LET t == call.value.items[n] IN
            /\ Len(t) = Len(matching_map)
            /\ \A i \in DOMAIN t : t[i] \in Range(matching_map[i].items)
            /\ WithinCounts(t, call.args.state)

\* C7 witness: two slots, several combinations returned, one of them taking the
\* same complex twice
C7_Witness ==
    /\ call.op = "find_all_matches"
    /\ Len(matching_map) = 2
    /\ Len(call.value.items) >= 3
    /\ \E n \in DOMAIN call.value.items : call.value.items[n][1] = call.value.items[n][2]

\* some left-hand pattern has no compatible complex: an entry of the map is empty
HasEmptyEntry(mm) == \E i \in DOMAIN mm : Range(mm[i].items) = {}

\* C8 as stated: choose_a_match returns None when the rule is not applicable
\* (an entry of its matching_map is empty); when it is applicable it returns one
\* element of the full result of find_all_matches in default mode and that full
\* result itself in exhaustive mode, also when the counts allow no combination.
C8_AsStated ==
    call.op = "choose_a_match" =>
        LET full == find_all_matches(matching_map, call.args.state) IN
        /\ HasEmptyEntry(matching_map) => call.value = PyNone
        /\ (~HasEmptyEntry(matching_map) /\ ~call.args.all /\ Len(full) > 0) =>
               (call.value.kind = "list" /\ \E i \in DOMAIN full : call.value.items = full[i])
        /\ (~HasEmptyEntry(matching_map) /\ call.args.all) => call.value = PyList(full)

\* C8 amended: choose_a_match returns None when an entry of the matching_map is
\* empty, when is_applicable() is false, or when find_all_matches returns no
\* combination, in either mode; otherwise it returns one element of the full
\* result in default mode and the full result itself in exhaustive mode (for a
\* rule with no left-hand pattern: the empty combination, resp. the list holding
\* only the empty combination).
C8_ChooseAMatch ==
    call.op = "choose_a_match" =>
        LET full == find_all_matches(matching_map, call.args.state)
            none == HasEmptyEntry(matching_map) \/ ~is_applicable(matching_map) \/ Len(full) = 0
        IN
        /\ none => call.value = PyNone
        /\ (~none /\ ~call.args.all) =>
               (call.value.kind = "list" /\ \E i \in DOMAIN full : call.value.items = full[i])
        /\ (~none /\ call.args.all) => call.value = PyList(full)
        /\ Len(matching_map) = 0 =>
               call.value = (IF call.args.all THEN PyList(<< <<>> >>) ELSE PyList(<<>>))

\* C8 witness: exhaustive mode on an applicable rule returns several combinations
C8_Witness ==
    /\ call.op = "choose_a_match"
    /\ call.args.all
    /\ call.value.kind = "list"
    /\ Len(call.value.items) >= 2
    /\ Len(matching_map) = 2

----------------------------------------------------------------------------
(* Properties of context completion and rule expansion *)

\* no agent of the rule is a wildcard
NoWildcard(r) == \A i \in DOMAIN r.agents : r.agents[i].state # WILDCARD

\* the left-hand (side = 1) or right-hand (side = 2) indices of the pairs, in the
\* order the pairs list them, None left out
Listed(r, side) ==
    SelectSeq([i \in DOMAIN r.pairs |-> r.pairs[i][side]], LAMBDA x : x # None)

Ascending(seq) == \A i, j \in DOMAIN seq : i < j => seq[i] < seq[j]

\* C6 as stated: a rule without wildcards whose pairs cover every agent index
\* exactly once, in any listing order, expands to exactly one reaction, equal to
\* rule.to_reaction(), and the assembled agent tuple is the rule's own tuple.
C6_AsStated ==
    (call.op = "create_reactions" /\ NoWildcard(rule)) =>
        /\ call.value = {to_reaction(rule)}
        /\ NewAgentTuples(rule, atomic_signature) = {rule.agents}

\* C6 amended: a rule without wildcards whose pairs cover every agent index
\* exactly once and list the left-hand indices in increasing order and the
\* right-hand indices in increasing order expands to exactly one reaction, equal
\* to rule.to_reaction(), and the assembled agent tuple is the rule's own tuple.
C6_ConcreteRule ==
    (/\ call.op = "create_reactions"
     /\ NoWildcard(rule)
     /\ Ascending(Listed(rule, 1))
     /\ Ascending(Listed(rule, 2))) =>
        /\ call.value = {to_reaction(rule)}
        /\ NewAgentTuples(rule, atomic_signature) = {rule.agents}

\* C6 witness: a concrete rule with two left-hand agents and one right-hand
\* agent, hence one entangled and one destroyed pair, listed in order, was expanded
C6_Witness ==
    /\ call.op = "create_reactions"
    /\ NoWildcard(rule)
    /\ rule.mid = 2
    /\ Len(rule.agents) = 3
    /\ rule.pairs = <<<<0, 2>>, <<1, None>>>>
    /\ call.value = {to_reaction(rule)}

\* C9: add_context on two atomic agents of the same name that are both wildcard
\* returns exactly the pairs (A{s}, A{s}), s in atomic_signature[name]: as many
\* pairs as the signature has states, none with different states on its two
\* sides; when one of the two is concrete it returns the single unchanged pair.
C9_AddContext ==
    (call.op = "add_context" /\ SameType(call.args.other)) =>
        LET self == call.args.self
            other == call.args.other
            sig == atomic_signature[self.name]
        IN IF self.state = WILDCARD /\ other.state = WILDCARD
           THEN /\ call.value = {<<AtomicAgent(self.name, s), AtomicAgent(self.name, s)>> : s \in sig}
                /\ Cardinality(call.value) = Cardinality(sig)
                /\ \A pr \in call.value : pr[1].state = pr[2].state
           ELSE call.value = {<<self, other>>}

\* C9 witness: a wildcard pair was completed over a signature of two states
C9_Witness ==
    /\ call.op = "add_context"
    /\ SameType(call.args.other)
    /\ call.args.self.state = WILDCARD
    /\ call.args.other.state = WILDCARD
    /\ atomic_signature[call.args.self.name] = {"p", "u"}
    /\ Cardinality(call.value) = 2

\* the pair (its position in `pairs`) that holds agent index j
PairOf(r, j) == CHOOSE i \in DOMAIN r.pairs : r.pairs[i][1] = j \/ r.pairs[i][2] = j

\* the size m_i of the completion set of the i-th pair
CompletionSize(r, sig, i) ==
    LET a == PairAgents(r, r.pairs[i]).left IN
    IF a.state = WILDCARD THEN Cardinality(sig[a.name]) ELSE 1

RECURSIVE ProductOfSizes(_, _, _)
\* m_i * ... * m_j for the pairs from the i-th on
ProductOfSizes(r, sig, i) ==
    IF i > Len(r.pairs) THEN 1
    ELSE CompletionSize(r, sig, i) * ProductOfSizes(r, sig, i + 1)

\* one state per wildcard pair taken from the signature ("-" for a concrete pair)
Assignments(r, sig) ==
    {st \in [DOMAIN r.pairs -> UNION {sig[n] : n \in DOMAIN sig} \cup {"-"}] :
        \A i \in DOMAIN r.pairs :
            LET a == PairAgents(r, r.pairs[i]).left IN
            st[i] \in (IF a.state = WILDCARD THEN sig[a.name] ELSE {"-"})}

\* the agent tuple of one assignment: the agents in the order the pairs list
\* them, left-hand ones first, every wildcard given the state of its pair
Completed(r, st) ==
    LET order == Listed(r, 1) \o Listed(r, 2) IN
    [k \in DOMAIN order |->
        LET a == r.agents[order[k] + 1] IN
        IF a.state = WILDCARD THEN AtomicAgent(a.name, st[PairOf(r, order[k])]) ELSE a]

\* the reaction l -> r of single-agent complexes, r possibly absent
ReactionOf(l, rs) ==
    [lhs |-> Side(<<Complex(<<l>>, "cyt")>>),
     rhs |-> Side([i \in DOMAIN rs |-> Complex(<<rs[i]>>, "cyt")]),
     rate |-> Rate]

\* C10: create_reactions returns one reaction for each element of the Cartesian
\* product of the per-pair completion sets: the product has m_1 * ... * m_j
\* elements, each assembles an agent tuple without None, and the result is the
\* set of their reactions (those that coincide in value counted once); A(_) ->
\* A(_) over A:{p,u} yields exactly A(p) -> A(p) and A(u) -> A(u), and A(_) ->
\* (nothing) yields exactly A(p) -> and A(u) ->.
C10_Expansion ==
    call.op = "create_reactions" =>
        LET tuples == NewAgentTuples(rule, atomic_signature)
            with(agents) == Rule(agents, rule.mid, rule.compartments, rule.complexes,
                                 rule.pairs, rule.rate)
        IN
        /\ Cardinality(tuples) = ProductOfSizes(rule, atomic_signature, 1)
        /\ tuples = {Completed(rule, st) : st \in Assignments(rule, atomic_signature)}
        /\ \A t \in tuples :
              /\ Len(t) = Len(rule.agents)
              /\ \A k \in DOMAIN t : t[k] # PyNone /\ SameType(t[k])
        /\ call.value = {to_reaction(with(Completed(rule, st))) :
                             st \in Assignments(rule, atomic_signature)}
        /\ Cardinality(call.value) <= ProductOfSizes(rule, atomic_signature, 1)
        /\ (/\ rule.agents = <<AtomicAgent("A", WILDCARD), AtomicAgent("A", WILDCARD)>>
            /\ rule.mid = 1
            /\ atomic_signature["A"] = {"p", "u"}) =>
               call.value = {ReactionOf(AtomicAgent("A", "p"), <<AtomicAgent("A", "p")>>),
                             ReactionOf(AtomicAgent("A", "u"), <<AtomicAgent("A", "u")>>)}
        /\ (/\ rule.agents = <<AtomicAgent("A", WILDCARD)>>
            /\ rule.mid = 1
            /\ atomic_signature["A"] = {"p", "u"}) =>
               call.value = {ReactionOf(AtomicAgent("A", "p"), <<>>),
                             ReactionOf(AtomicAgent("A", "u"), <<>>)}

\* C10 witness: A(_) -> A(_) was expanded over A:{p,u} into two reactions
C10_Witness ==
    /\ call.op = "create_reactions"
    /\ rule.agents = <<AtomicAgent("A", WILDCARD), AtomicAgent("A", WILDCARD)>>
    /\ rule.mid = 1
    /\ atomic_signature["A"] = {"p", "u"}
    /\ Cardinality(call.value) = 2

----------------------------------------------------------------------------
(* Properties of the Model *)

RECURSIVE Total(_, _)
\* the sum of the counts that `counter` holds for `keys`
Total(counter, keys) ==
    IF keys = {} THEN 0
    ELSE LET k == CHOOSE x \in keys : TRUE
         IN counter[k] + Total(counter, keys \ {k})

\* C3: Model.reduce_context merges colliding initial complexes by summing: the
\* new count of every reduced complex is the sum of the old counts of the
\* complexes that reduce to it, and the total initial population is unchanged.
C3_InitMerged ==
    call.op = "reduce_context" =>
        LET old == call.args.init IN
        /\ DOMAIN init = {Complex_reduce_context(c) : c \in DOMAIN old}
        /\ \A r \in DOMAIN init :
              init[r] = Total(old, {c \in DOMAIN old : Complex_reduce_context(c) = r})
        /\ Total(init, DOMAIN init) = Total(old, DOMAIN old)

\* the ids that rule a carries in its comment
IdsOf(h, a) == Range(h[a].comment.ids)

\* the unordered pairs of distinct rules of which one is compatible with the other
CompatiblePairs(h, ids) ==
    {pair \in {{a, b} : a \in ids, b \in ids} :
        \E a \in pair, b \in pair : a # b /\ Rule_compatible(h[a], h[b])}

\* C4: eliminate_redundant hands out one id per unordered pair of distinct
\* compatible rules: the ids are 1..n, n the number of such pairs, and no
\* unordered pair receives two different ids.
C4_OneIdPerPair ==
    call.op = "eliminate_redundant" =>
        /\ UNION {IdsOf(heap, a) : a \in rules} = 1..Cardinality(CompatiblePairs(heap, rules))
        /\ call.value.counter = Cardinality(CompatiblePairs(heap, rules)) + 1
        /\ \A a \in rules : \A b \in rules \ {a} :
              Cardinality(IdsOf(heap, a) \cap IdsOf(heap, b)) <= 1

SidesEqual(r) == create_complexes(r).lhs = create_complexes(r).rhs

\* C11: Rule.reduce_context is idempotent (reducing a reduced rule returns a rule
\* equal to it), and Model.reduce_context drops a rule iff the left-hand and
\* right-hand complex multisets of its reduced form are equal; every other rule
\* is kept in reduced form, and nothing else is kept.
C11_ReduceIdempotentDropIff ==
    call.op = "reduce_context" =>
        /\ \A old \in call.args.rules :
              LET reduced == Rule_reduce_context(call.args.heap[old]) IN
              /\ Rule_eq(Rule_reduce_context(reduced), reduced)
              /\ Rule_reduce_context(reduced) = reduced
              /\ SidesEqual(reduced) <=> ~ \E id \in rules : Rule_eq(heap[id], reduced)
        /\ \A id \in rules :
              /\ Rule_eq(Rule_reduce_context(heap[id]), heap[id])
              /\ \E old \in call.args.rules :
                    Rule_eq(heap[id], Rule_reduce_context(call.args.heap[old]))

\* C11 witness: of two rules with concrete states, reduce_context dropped one
\* and kept the reduced form of the other
C11_Witness ==
    /\ call.op = "reduce_context"
    /\ \E a \in call.args.rules, b \in call.args.rules :
          /\ a # b
          /\ call.args.heap[a].agents[1].state # WILDCARD
          /\ call.args.heap[b].agents[1].state # WILDCARD
          /\ SidesEqual(Rule_reduce_context(call.args.heap[a]))
          /\ ~ \E id \in rules : Rule_eq(heap[id], Rule_reduce_context(call.args.heap[a]))
          /\ \E id \in rules : heap[id] = Rule_reduce_context(call.args.heap[b])

\* how many times id k is listed in the comment of rule a
TimesListed(h, a, k) == Cardinality({i \in DOMAIN h[a].comment.ids : h[a].comment.ids[i] = k})

\* the rules that carry id k
Carriers(h, ids, k) == {a \in ids : k \in IdsOf(h, a)}

\* C12: after eliminate_redundant on rules with empty annotations every id that
\* was handed out is listed by exactly two distinct rules, once by each (the
\* left and the right rule of the comparison that produced it), so a rule
\* carries an id of a pair iff the other rule of the pair carries it.
C12_FlaggingSymmetric ==
    call.op = "eliminate_redundant" =>
        /\ \A k \in 1..(call.value.counter - 1) :
              /\ Cardinality(Carriers(heap, rules, k)) = 2
              /\ \A a \in Carriers(heap, rules, k) : TimesListed(heap, a, k) = 1
              /\ \E e \in DOMAIN call.value.log :
                    /\ call.value.log[e][3] = k
                    /\ Carriers(heap, rules, k) = {call.value.log[e][1], call.value.log[e][2]}
        /\ \A a \in rules : IdsOf(heap, a) \subseteq 1..(call.value.counter - 1)
        /\ \A e \in DOMAIN call.value.log :
              LET a == call.value.log[e][1]
                  b == call.value.log[e][2]
              IN a # b /\ \A k \in IdsOf(heap, a) \cup IdsOf(heap, b) :
                     (\E f \in DOMAIN call.value.log :
                         call.value.log[f][3] = k /\ {call.value.log[f][1], call.value.log[f][2]} = {a, b})
                         => (k \in IdsOf(heap, a) /\ k \in IdsOf(heap, b))

\* C12 witness: one rule is compatible with another that is not compatible
\* with it, and the one id handed out is carried by both
C12_Witness ==
    /\ call.op = "eliminate_redundant"
    /\ call.value.counter = 2
    /\ \E a \in rules, b \in rules :
          /\ a # b
          /\ Rule_compatible(heap[a], heap[b])
          /\ ~Rule_compatible(heap[b], heap[a])
          /\ heap[a].comment.ids = <<1>>
          /\ heap[b].comment.ids = <<1>>

\* the concrete states the model shows for atomic name n
Observed(ruleset, counter, n) ==
    {a.state : a \in {b \in AgentsIn(ruleset, counter) : b.name = n /\ b.state # WILDCARD}}

Chosen(mm, path) == [k \in 1..(Len(path) - 1) |-> mm[k].items[path[k]]]

\* C15: in find_all_matches, when a candidate is tried at slot i the count it
\* sees for any complex is the original count minus the occurrences of that
\* complex among the candidates chosen for slots 1..i-1 of the same
\* combination; the decrement made for an earlier candidate of the same slot
\* is not visible.
C15_BranchesIndependent ==
    call.op = "find_all_matches" =>
        \A path \in Paths(matching_map) :
            LET seen == state_seen(matching_map, call.args.state, path) IN
            seen.reached =>
                /\ DOMAIN seen.state = DOMAIN call.args.state
                /\ \A c \in DOMAIN seen.state :
                      seen.state[c] =
                          call.args.state[c] - Occurrences(Chosen(matching_map, path), c)

\* C16: the cached signature is recomputed when the rule set changes: after
\* Model.reduce_context has replaced the model's rules and init, the model's
\* atomic_signature is what extract_signatures computes from the rules and
\* init the model holds now.
C16_SignatureRecomputed ==
    call.op = "reduce_context" =>
        atomic_signature = extract_signatures({heap[id] : id \in rules}, init)

\* C17: eliminate_redundant never comments out every rule of a redundant pair:
\* in a quantitative model (all_rates) no rule's commented-out flag is set, and
\* in a qualitative model, of any two distinct rules that a comparison of the
\* pass found compatible, at least one still has its flag false afterwards.
C17_OneOfPairKept ==
    call.op = "eliminate_redundant" =>
        /\ all_rates => \A a \in rules : ~heap[a].comment.flag
        /\ ~all_rates =>
              \A e \in DOMAIN call.value.log :
                  \/ ~heap[call.value.log[e][1]].comment.flag
                  \/ ~heap[call.value.log[e][2]].comment.flag

====
